---- MODULE Spec2Model ----
(***************************************************************************)
(* The orchestration loops of the MCP client demo: BrowserAgent            *)
(* (browser_agent.py) and the GeminiHandler / OpenAIHandler of chat.py.    *)
(* One adapter object is modelled over its lifetime: the caller issues     *)
(* initialize / run_task / get_response calls one after the other, and     *)
(* each call is followed through its suspension points (process spawn,     *)
(* readiness sleep, connect, reasoning-service calls, tool invocations,    *)
(* connection close, terminate, wait).  The tool host and the reasoning    *)
(* service are the environment: every call to them either returns a value  *)
(* drawn from a small set or raises.                                       *)
(***************************************************************************)
EXTENDS Integers, Sequences, FiniteSets, TLC

\* ------------------------------------------------------------------ bounds
\* calls the caller makes on one adapter
MaxCalls == 3
\* reasoning-service responses of one session that may carry tool calls
MaxTurns == 2
\* parts of one reasoning-service response
MaxParts == 3
\* tools the tool host may list
MaxTools == 1
\* descriptors in a list handed to the schema translator
MaxDescs == 2
\* translations of one list
MaxTranslations == 2
\* turns of history the caller of get_response carries into a further call
MaxHistory == 2

Engines == {"agent", "gemini", "openai"}
ToolNames == {"A", "B"}
Texts == {"t1", "t2"}
Prompts == {"u1"}

VARIABLES
    engine,          \* which of the three classes the adapter is
    model,           \* self.model (BrowserAgent, GeminiHandler)
    tools,           \* self.tools (OpenAIHandler)
    is_initialized,  \* self.is_initialized (BrowserAgent)
    mcp_command,     \* self.mcp_command (BrowserAgent): "None" or "cmd"
    mcp_url,         \* self.mcp_url (BrowserAgent): "None", "" or "url"
    op,              \* the call in progress, or the last one: "initialize", "run_task", "get_response"
    phase,           \* "disc": inside the discovery helper; "task": inside the task session
    pc,              \* position of the running coroutine
    procs,           \* every tool-host process ever spawned: owner, state, stops
    process,         \* the local `process` of the running frame (0 is None)
    conn,            \* the MCPClient connection of the running frame
    exc,             \* the exception in flight ("none" when there is none)
    ret,             \* the value the discovery helper returned
    user_input,      \* user_prompt / user_input of the call
    response,        \* the local `response` (last reasoning-service response)
    idx,             \* position of the for loop over the tool calls
    results,         \* tool_response_parts / the tool messages of this batch
    outstanding,     \* calls awaiting their reply
    turns,           \* responses received in this session
    final_text,      \* final_text / the text printed as the answer
    outcome,         \* how the last call ended: "none", "returned", "raised"
    returned,        \* the value the last call returned ("None" when none)
    error,           \* the exception the last call raised
    calls,           \* calls made so far
    env,             \* what load_dotenv / config.json give: the API key, the launch specification
    main_pc,         \* position of main() of chat.py: "off", "start", "loop", "call", "ended"
    line,            \* the local user_input of main(): the line read, stripped
    sessions,        \* the frames of the run_task calls that run interleaved
    tool_summaries,  \* the descriptor list handed to the schema translator
    declarations,    \* what the last translation returned
    previous,        \* what the translation before it returned
    translations,    \* translations made so far
    original,        \* the descriptor list as list_tools() returned it
    chat_history,    \* the list chat_history the caller of get_response threads through its calls
    chat             \* chat.history of the ChatSession of the running session

vars == <<engine, model, tools, is_initialized, mcp_command, mcp_url, op, phase, pc, procs, process,
          conn, exc, ret, user_input, response, idx, results, outstanding,
          turns, final_text, outcome, returned, error, calls, env, main_pc,
          line, sessions, tool_summaries, declarations, previous, translations,
          original, chat_history, chat>>

\* ------------------------------------------------------------------ values
\* Python's None and a present value, as one record type.
None == [isNone |-> TRUE, val |-> <<>>]
Some(v) == [isNone |-> FALSE, val |-> v]

\* `if x:` / `if not x:` on None or a list.
Truthy(x) == ~x.isNone /\ x.val /= <<>>
\* `if not self.model` on None or a GenerativeModel object.
IsObject(x) == ~x.isNone

SeqsUpTo(S, n) == UNION {[1..k -> S] : k \in 1..n}

\* A reasoning-service response: its parts in order (a text part or a
\* function call, named by the tool it calls) and its text.
Responses == [parts : SeqsUpTo(ToolNames \cup {"text"}, MaxParts), text : Texts]
NoResponse == [parts |-> <<>>, text |-> "none"]

\* part.function_call is set
IsCall(p) == p \in ToolNames
HasToolCall(r) == \E i \in DOMAIN r.parts : IsCall(r.parts[i])
FinalResponses == {r \in Responses : ~HasToolCall(r)}

\* message.tool_calls / [part.function_call for part in parts if part.function_call]
CallsOf(r) == SelectSeq(r.parts, IsCall)

\* The requests the engine is going to invoke for this response.
GeminiFirstCall(r) == <<r.parts[1]>>
ToolCalls(e, r) ==
    IF e = "gemini" THEN GeminiFirstCall(r) ELSE CallsOf(r)

\* The loop condition: does the engine dispatch tools for this response?
AgentLoopGuard(r) == Len(r.parts) > 0 /\ IsCall(r.parts[1])
GeminiLoopGuard(r) == IsCall(r.parts[1])
OpenAILoopGuard(r) == CallsOf(r) /= <<>>
LoopGuard(e, r) ==
    CASE e = "agent" -> AgentLoopGuard(r) /\ CallsOf(r) /= <<>>
      [] e = "gemini" -> GeminiLoopGuard(r)
      [] OTHER -> OpenAILoopGuard(r)

\* A call awaiting its reply.
LlmCall(input) == [kind |-> "llm", name |-> "none", seq |-> 0, input |-> input]
ToolCall(name, i) == [kind |-> "tool", name |-> name, seq |-> i, input |-> <<>>]

\* What is submitted to the reasoning service.
UserPart(text) == [kind |-> "user", name |-> text, seq |-> 0]
\* {"function_response": {"name": tool_name, "response": {"result": str(tool_result)}}}:
\* the result of the seq-th invocation of the batch, of the tool `name`.
ResultPart(name, i) == [kind |-> "tool", name |-> name, seq |-> i]

\* ------------------------------------------------------ conversation turns
\* A turn of the conversation: the n-th turn of the req-th call, and who
\* speaks.
Turn(req, n, role) == [req |-> req, n |-> n, role |-> role]

\* chat = self.model.start_chat(): a ChatSession with no history.
AgentStartChat == <<>>
\* chat = self.model.start_chat(history=chat_history): the ChatSession holds
\* its own list, with the turns of chat_history in it.
GeminiStartChat(h) == h
StartChat(e, h) == IF e = "gemini" THEN GeminiStartChat(h) ELSE AgentStartChat

\* response = await chat.send_message_async(...): chat.history has the
\* content sent and the content received after those it had (k exchanges
\* of the call req were made before).
Exchanged(h, req, k) ==
    h \o <<Turn(req, 2 * k + 1, "user"), Turn(req, 2 * k + 2, "model")>>

\* chat_history.extend(chat.history)
GeminiThreaded(h, c, req) == h \o c
\* chat_history.append({"role": "user", ...});
\* chat_history.append({"role": "assistant", ...})
OpenAIThreaded(h, c, req) ==
    Append(Append(h, Turn(req, 1, "user")), Turn(req, 2, "assistant"))
\* What the engine leaves in the caller's chat_history once it has its
\* answer; BrowserAgent takes no history.
Threaded(e, h, c, req) ==
    CASE e = "gemini" -> GeminiThreaded(h, c, req)
      [] e = "openai" -> OpenAIThreaded(h, c, req)
      [] OTHER -> h

\* ---------------------------------------------------------- schema helpers
Params == {"p", "q"}
\* The 'type' entry of a parameter; "none": the parameter has no 'type' key.
Types == {"none", "integer"}
\* inputSchema['properties'] when the key is there: the declared parameters.
PropertyDicts == UNION {[ps -> Types] : ps \in SUBSET Params}
\* inputSchema['required'] when the key is there.
RequiredLists == {<<>>, <<"p">>}
\* What the translator reads of the inputSchema of one tool summary.
Schemas == [properties : {None} \cup {Some(f) : f \in PropertyDicts},
            required : {None} \cup {Some(r) : r \in RequiredLists}]
\* The lists of up to n tool summaries list_tools() may return: the i-th
\* tool is named i.
DescriptorLists(n) ==
    UNION {{[i \in 1..k |-> [name |-> i, properties |-> sch[i].properties,
                             required |-> sch[i].required]] :
                sch \in [1..k -> Schemas]} : k \in 0..n}

\* list_tools() returning n tool summaries, of tools without parameters
Summaries(n) == [i \in 1..n |-> [name |-> i, properties |-> None, required |-> None]]

\* input_schema.get('properties', {}) / input_schema.get('required', [])
GetOr(x, default) == IF x.isNone THEN default ELSE x.val

\* for param_name, param_details in properties.items():
\*     if 'type' not in param_details: param_details['type'] = 'string'
Undefaulted(props) == props
Defaulted(props) ==
    [p \in DOMAIN props |-> IF props[p] = "none" THEN "string" ELSE props[p]]

\* parameters={"type": "object", "properties": properties, "required": required}
Parameters(d) ==
    [type |-> "object",
     properties |-> Defaulted(GetOr(d.properties, <<>>)),
     required |-> GetOr(d.required, <<>>)]

\* One declaration per tool summary, appended in the order of the loop.
FunctionDeclarations(kind, s) ==
    [i \in DOMAIN s |-> [kind |-> kind, name |-> s[i].name,
                         parameters |-> Parameters(s[i])]]

GeminiConvert(s) ==
    LET decls == FunctionDeclarations("decl", s)
    IN  IF decls /= <<>>
        THEN <<[kind |-> "GeminiTool", name |-> 0, decls |-> decls]>>
        ELSE <<>>

OpenAIConvert(s) == FunctionDeclarations("function", s)

Convert(e, s) == IF e = "openai" THEN OpenAIConvert(s) ELSE GeminiConvert(s)

\* What the loop leaves in the tool summaries it was given: `properties` is
\* the dict of the summary itself, and the defaulting assigns into it.
TranslatedInPlacePopRequired(s) ==
    [i \in DOMAIN s |->
        [s[i] EXCEPT !.properties = IF @.isNone THEN @ ELSE Some(Defaulted(@.val)),
                     !.required = None]]
TranslatedInPlace(s) ==
    [i \in DOMAIN s |->
        [s[i] EXCEPT !.properties = IF @.isNone THEN @ ELSE Some(Defaulted(@.val))]]

\* ------------------------------------------------------------ environment
\* The API key of the provider (set or not) and config.json: "ok", "file"
\* (unreadable, or without the playwright entry or its command), "url" (the
\* entry has no url), "empty" (the url is the empty string).
Envs == [key : BOOLEAN, config : {"ok", "file", "url", "empty"}]

\* BrowserAgent._load_config: what it raises on, "none" when it returns.
LoadConfigError(e) ==
    IF ~e.key THEN "env" ELSE IF e.config /= "ok" THEN e.config ELSE "none"

\* load_mcp_config() of chat.py: (command, url), or (None, None) when
\* anything raised.
LoadMcpConfig(e) ==
    CASE e.config \in {"file", "url"} -> <<"None", "None">>
      [] e.config = "empty" -> <<"cmd", "">>
      [] OTHER -> <<"cmd", "url">>

\* `not x` on None or a string / a non-empty list
Falsy(x) == x \in {"None", ""}

\* A line typed at the prompt: a word, in upper case or not, with
\* surrounding whitespace or not.
Words == {"", "exit", "quit", "u1"}
ExitWords == {"exit", "quit"}
Lines == {l \in [pad : BOOLEAN, upper : BOOLEAN, word : Words] :
              l.upper => l.word \in ExitWords}
NoLine == [pad |-> FALSE, upper |-> FALSE, word |-> "none"]
\* str.strip()
Strip(l) == [l EXCEPT !.pad = FALSE]
\* str.lower()
Lower(l) == [l EXCEPT !.upper = FALSE]
\* `not user_input`: the empty string
IsEmptyString(l) == l.word = "" /\ ~l.pad
\* x in ['exit', 'quit']
InExitList(l) == ~l.pad /\ ~l.upper /\ l.word \in ExitWords

\* ------------------------------------------------------------------ init
\* A new adapter object, nothing called yet.
Constructed ==
    /\ model = None
    /\ tools = None
    /\ is_initialized = FALSE
    /\ mcp_command = "None"
    /\ mcp_url = "None"
    /\ op = "none"
    /\ phase = "none"
    /\ pc = "idle"
    /\ procs = <<>>
    /\ process = 0
    /\ conn = "none"
    /\ exc = "none"
    /\ ret = None
    /\ user_input = "none"
    /\ response = NoResponse
    /\ idx = 1
    /\ results = <<>>
    /\ outstanding = {}
    /\ turns = 0
    /\ final_text = "none"
    /\ outcome = "none"
    /\ returned = "None"
    /\ error = "none"
    /\ calls = 0
    /\ chat_history = <<>>
    /\ chat = <<>>

\* No main(), no interleaved sessions, no translation under way.
NoMain == main_pc = "off" /\ line = NoLine
NoSessions == sessions = <<>>
NoTranslation ==
    /\ tool_summaries = <<>>
    /\ original = <<>>
    /\ declarations = None
    /\ previous = None
    /\ translations = 0

\* One adapter, called by its owner; the handlers of chat.py are handed a
\* launch command and a url by their caller.
Init ==
    /\ engine \in Engines
    /\ env \in Envs
    /\ engine /= "agent" => env.config = "ok"
    /\ Constructed
    /\ NoMain
    /\ NoSessions
    /\ NoTranslation

\* The locals of the conversation loop. A local that no later statement reads
\* is dropped (set back to its initial value) when the loop is left, so that
\* states differing only in dead locals are one state.
loop == <<response, idx, results, outstanding, turns, chat>>
DropLoop ==
    /\ chat' = <<>>
    /\ response' = NoResponse
    /\ idx' = 1
    /\ results' = <<>>
    /\ outstanding' = {}
    /\ turns' = 0

\* The locals of a fresh frame.
FreshFrame ==
    /\ process' = 0
    /\ conn' = "none"
    /\ exc' = "none"
    /\ final_text' = "none"
    /\ DropLoop

\* A call begins: the previous call's outcome is forgotten.
BeginCall(name, input) ==
    /\ op' = name
    /\ user_input' = input
    /\ calls' = calls + 1
    /\ ret' = None

ClearOutcome ==
    /\ outcome' = "none"
    /\ returned' = "None"
    /\ error' = "none"

\* The call ends by returning v / by raising e.
Return(v) ==
    /\ pc' = "idle"
    /\ phase' = "none"
    /\ outcome' = "returned"
    /\ returned' = v
    /\ error' = "none"

RaiseSwallowed(e) ==
    /\ pc' = "idle"
    /\ phase' = "none"
    /\ outcome' = "returned"
    /\ returned' = "None"
    /\ error' = "none"
Raise(e) ==
    /\ pc' = "idle"
    /\ phase' = "none"
    /\ outcome' = "raised"
    /\ returned' = "None"
    /\ error' = e

adapter == <<engine, model, tools, is_initialized, mcp_command, mcp_url>>
frame == <<process, conn, exc, response, idx, results, outstanding, turns, final_text, chat>>
result == <<outcome, returned, error>>
shell == <<main_pc, line>>
schema == <<tool_summaries, declarations, previous, translations, original>>
\* what the steps of one adapter's calls leave alone
outside == <<env, shell, sessions, schema>>

\* ------------------------------------------------------- the caller's calls
\* Is the one-time discovery still to be done?
\*   BrowserAgent.initialize: if self.is_initialized: return
\*   GeminiHandler.get_response: if not self.model
\*   OpenAIHandler.get_response: if not self.tools
NeedsDiscoveryAlways == TRUE
NeedsDiscovery ==
    CASE engine = "agent" -> ~is_initialized
      [] engine = "gemini" -> ~IsObject(model)
      [] OTHER -> ~Truthy(tools)

\* BrowserAgent.initialize on an initialized agent: logs and returns.
InitializeSkip ==
    /\ pc = "idle" /\ engine = "agent" /\ calls < MaxCalls
    /\ ~NeedsDiscovery
    /\ BeginCall("initialize", "none")
    /\ Return("None")
    /\ UNCHANGED <<adapter, frame, procs>>
    /\ UNCHANGED chat_history
    /\ UNCHANGED outside

\* BrowserAgent._load_config raising: no API key, config.json unreadable or
\* without the playwright entry ("file"), the entry without "url" ("url":
\* mcp_command is already assigned), or an empty url ("empty").
LoadConfigFails(kind) ==
    /\ kind \in {"env", "file", "url", "empty"}
    /\ mcp_command' = IF kind \in {"url", "empty"} THEN "cmd" ELSE mcp_command
    /\ mcp_url' = IF kind = "empty" THEN "" ELSE mcp_url

InitializeConfigError ==
    /\ pc = "idle" /\ engine = "agent" /\ calls < MaxCalls
    /\ NeedsDiscovery
    /\ LoadConfigError(env) /= "none"
    /\ LoadConfigFails(LoadConfigError(env))
    /\ BeginCall("initialize", "none")
    /\ Raise("config")
    /\ UNCHANGED <<engine, model, tools, is_initialized, frame, procs>>
    /\ UNCHANGED chat_history
    /\ UNCHANGED outside

\* BrowserAgent.initialize up to the call of _get_initial_tool_schema.
InitializeStart ==
    /\ pc = "idle" /\ engine = "agent" /\ calls < MaxCalls
    /\ NeedsDiscovery
    /\ LoadConfigError(env) = "none"
    /\ mcp_command' = "cmd"
    /\ mcp_url' = "url"
    /\ BeginCall("initialize", "none")
    /\ ClearOutcome
    /\ phase' = "disc"
    /\ pc' = "spawn"
    /\ FreshFrame
    /\ UNCHANGED <<engine, model, tools, is_initialized, procs>>
    /\ UNCHANGED chat_history
    /\ UNCHANGED outside

\* BrowserAgent.run_task on an agent that is not initialized.
RunTaskUnguarded ==
    /\ pc = "idle" /\ engine = "agent" /\ calls < MaxCalls
    /\ ~is_initialized
    /\ \E p \in Prompts : BeginCall("run_task", p)
    /\ ClearOutcome
    /\ phase' = "task"
    /\ pc' = "spawn"
    /\ FreshFrame
    /\ UNCHANGED <<adapter, procs>>
    /\ UNCHANGED chat_history
    /\ UNCHANGED outside
RunTaskNotInitialized ==
    /\ pc = "idle" /\ engine = "agent" /\ calls < MaxCalls
    /\ ~is_initialized
    /\ \E p \in Prompts : BeginCall("run_task", p)
    /\ Raise("notinit")
    /\ UNCHANGED <<adapter, frame, procs>>
    /\ UNCHANGED chat_history
    /\ UNCHANGED outside

\* BrowserAgent.run_task up to the try block.
RunTaskStartForgetful ==
    /\ pc = "idle" /\ engine = "agent" /\ calls < MaxCalls
    /\ is_initialized
    /\ \E p \in Prompts : BeginCall("run_task", p)
    /\ ClearOutcome
    /\ phase' = "task"
    /\ pc' = "spawn"
    /\ FreshFrame
    /\ is_initialized' = FALSE
    /\ UNCHANGED <<engine, model, tools, mcp_command, mcp_url, procs>>
    /\ UNCHANGED chat_history
    /\ UNCHANGED outside
RunTaskStart ==
    /\ pc = "idle" /\ engine = "agent" /\ calls < MaxCalls
    /\ is_initialized
    /\ \E p \in Prompts : BeginCall("run_task", p)
    /\ ClearOutcome
    /\ phase' = "task"
    /\ pc' = "spawn"
    /\ FreshFrame
    /\ UNCHANGED <<adapter, procs>>
    /\ UNCHANGED chat_history
    /\ UNCHANGED outside

\* GeminiHandler.get_response / OpenAIHandler.get_response up to the first
\* await: the discovery helper when the catalog is not built, the try block
\* otherwise.
GetResponseBegin(p) ==
    /\ BeginCall("get_response", p)
    /\ ClearOutcome
    /\ phase' = IF NeedsDiscovery THEN "disc" ELSE "task"
    /\ pc' = "spawn"
    /\ FreshFrame
    /\ UNCHANGED <<engine, model, tools, is_initialized, procs>>

\* A caller that does not thread the history: it hands every call a new
\* empty list as chat_history.
GetResponseStart ==
    /\ pc = "idle" /\ engine \in {"gemini", "openai"} /\ calls < MaxCalls
    /\ main_pc = "off"
    /\ \E p \in Prompts : GetResponseBegin(p)
    /\ chat_history' = <<>>
    /\ UNCHANGED <<mcp_command, mcp_url, outside>>

\* ------------------------------------------------- steps of either session
\* `except Exception`: the clause takes every exception but a cancellation
\* (asyncio.CancelledError is a BaseException).
CaughtRuntimeError(e) == e \in {"discovery", "notinit"}
Caught(e) == e /= "cancelled"

\* Where an exception raised at the current position continues: through the
\* `async with` exit when the connection is open, else at the except clause
\* (discovery helper) or the finally clause.
HandlerPastClose(c, ph) ==
    IF ph = "disc" THEN "except" ELSE "finally"
Handler(c, ph) ==
    IF c = "open" THEN "aexit" ELSE IF ph = "disc" THEN "except" ELSE "finally"

Throw(e) ==
    /\ exc' = e
    /\ pc' = Handler(conn, phase)

\* process = subprocess.Popen(...): the process starts, or Popen raises
\* (executable not found) and `process` stays None.
Spawn ==
    /\ pc = "spawn"
    /\ \/ /\ procs' = Append(procs, [owner |-> phase, state |-> "Starting", stops |-> 0])
          /\ process' = Len(procs) + 1
          /\ pc' = "sleep"
          /\ UNCHANGED exc
       \/ /\ Throw("launch")
          /\ UNCHANGED <<procs, process>>
    /\ UNCHANGED <<adapter, op, phase, conn, ret, user_input, response, idx,
                   results, outstanding, turns, final_text, result, calls>>
    /\ UNCHANGED chat_history
    /\ UNCHANGED chat
    /\ UNCHANGED outside

\* await asyncio.sleep(N): the process is presumed ready, unless it has
\* exited meanwhile.
SleepNotAwaited ==
    /\ pc = "sleep"
    /\ pc' = "connect"
    /\ UNCHANGED <<adapter, op, phase, procs, process, conn, exc, ret, user_input,
                   response, idx, results, outstanding, turns, final_text,
                   result, calls>>
    /\ UNCHANGED chat_history
    /\ UNCHANGED chat
    /\ UNCHANGED outside
Sleep ==
    /\ pc = "sleep"
    /\ procs' = [procs EXCEPT ![process].state = IF @ = "Starting" THEN "Ready" ELSE @]
    /\ pc' = "connect"
    /\ UNCHANGED <<adapter, op, phase, process, conn, exc, ret, user_input,
                   response, idx, results, outstanding, turns, final_text,
                   result, calls>>
    /\ UNCHANGED chat_history
    /\ UNCHANGED chat
    /\ UNCHANGED outside

\* async with MCPClient(url) as mcp_client: the connection opens or the
\* context manager's entry raises; nothing answers at the url once the
\* process has exited.
Connect ==
    /\ pc = "connect"
    /\ \/ /\ process /= 0 /\ procs[process].state = "Ready"
          /\ conn' = "open"
          /\ pc' = IF phase = "disc" THEN "list" ELSE "send"
          /\ UNCHANGED exc
       \/ /\ Throw("connect")
          /\ UNCHANGED conn
    /\ UNCHANGED <<adapter, op, phase, procs, process, ret, user_input,
                   response, idx, results, outstanding, turns, final_text,
                   result, calls>>
    /\ UNCHANGED chat_history
    /\ UNCHANGED chat
    /\ UNCHANGED outside

\* Leaving the `async with` block, normally or with an exception in flight:
\* the connection is closed; then the except clause of the discovery helper
\* when an exception is in flight, the finally clause otherwise.
AfterCloseNoFinally(e, ph) ==
    IF e /= "none" THEN (IF ph = "disc" THEN "except" ELSE "exit") ELSE "finally"
AfterCloseExceptionsOnly(e, ph) ==
    IF e = "cancelled" THEN "exit"
    ELSE IF e /= "none" /\ ph = "disc" THEN "except" ELSE "finally"
AfterClose(e, ph) ==
    IF e /= "none" /\ ph = "disc" THEN "except" ELSE "finally"

AExit ==
    /\ pc = "aexit"
    /\ conn' = "closed"
    /\ pc' = AfterClose(exc, phase)
    /\ DropLoop
    /\ UNCHANGED <<adapter, op, phase, procs, process, exc, ret, user_input,
                   final_text, result, calls>>
    /\ UNCHANGED chat_history
    /\ UNCHANGED outside

\* finally: if process: process.terminate().  Popen.terminate() signals a
\* running process and does nothing to one that has exited.
FinallyKillByPid ==
    /\ pc = "finally"
    /\ IF process /= 0
       THEN IF procs[process].state = "Exited"
            THEN /\ procs' = [procs EXCEPT ![process].stops = @ + 1]
                 /\ exc' = "lookup"
                 /\ pc' = "exit"
            ELSE /\ procs' = [procs EXCEPT ![process].stops = @ + 1,
                                           ![process].state = "Signalled"]
                 /\ pc' = "wait"
                 /\ UNCHANGED exc
       ELSE /\ pc' = "exit"
            /\ UNCHANGED <<procs, exc>>
    /\ UNCHANGED <<adapter, op, phase, process, conn, ret, user_input,
                   response, idx, results, outstanding, turns, final_text,
                   result, calls>>
    /\ UNCHANGED chat_history
    /\ UNCHANGED chat
    /\ UNCHANGED outside
Finally ==
    /\ pc = "finally"
    /\ IF process /= 0
       THEN /\ procs' = [procs EXCEPT
                            ![process].stops = @ + 1,
                            ![process].state = IF @ = "Exited" THEN @ ELSE "Signalled"]
            /\ pc' = "wait"
       ELSE /\ pc' = "exit"
            /\ UNCHANGED procs
    /\ UNCHANGED <<adapter, op, phase, process, conn, exc, ret, user_input,
                   response, idx, results, outstanding, turns, final_text,
                   result, calls>>
    /\ UNCHANGED chat_history
    /\ UNCHANGED chat
    /\ UNCHANGED outside

\* process.wait(): returns once the process has exited, at once when it had
\* exited already.
WaitSkipped ==
    /\ pc = "wait"
    /\ pc' = "exit"
    /\ UNCHANGED <<adapter, op, phase, procs, process, conn, exc, ret,
                   user_input, response, idx, results, outstanding, turns,
                   final_text, result, calls>>
    /\ UNCHANGED chat_history
    /\ UNCHANGED chat
    /\ UNCHANGED outside
Wait ==
    /\ pc = "wait"
    /\ procs' = [procs EXCEPT ![process].state = "Terminated"]
    /\ pc' = "exit"
    /\ UNCHANGED <<adapter, op, phase, process, conn, exc, ret, user_input,
                   response, idx, results, outstanding, turns, final_text,
                   result, calls>>
    /\ UNCHANGED chat_history
    /\ UNCHANGED chat
    /\ UNCHANGED outside

\* ------------------------------------------------- the discovery helper
\* tool_summaries = await mcp_client.list_tools(); return converter(tool_summaries).
\* A process that has exited lists nothing: the call raises.
ListTools ==
    /\ pc = "list"
    /\ \/ /\ procs[process].state = "Ready"
          /\ \E n \in 0..MaxTools : ret' = Some(Convert(engine, Summaries(n)))
          /\ pc' = "aexit"
          /\ UNCHANGED exc
       \/ /\ Throw("list")
          /\ UNCHANGED ret
    /\ UNCHANGED <<adapter, op, phase, procs, process, conn, user_input,
                   response, idx, results, outstanding, turns, final_text,
                   result, calls>>
    /\ UNCHANGED chat_history
    /\ UNCHANGED chat
    /\ UNCHANGED outside

\* except Exception as e: log; return None
Except ==
    /\ pc = "except"
    /\ IF Caught(exc)
       THEN /\ ret' = None
            /\ exc' = "none"
       ELSE UNCHANGED <<ret, exc>>
    /\ pc' = "finally"
    /\ UNCHANGED <<adapter, op, phase, procs, process, conn, user_input,
                   response, idx, results, outstanding, turns, final_text,
                   result, calls>>
    /\ UNCHANGED chat_history
    /\ UNCHANGED chat
    /\ UNCHANGED outside

\* The helper returns to initialize / get_response; an exception its except
\* clause did not take goes on through initialize / get_response to their
\* caller.
DiscoveryExit ==
    /\ pc = "exit" /\ phase = "disc"
    /\ process' = 0
    /\ conn' = "none"
    /\ IF exc = "none"
       THEN /\ pc' = "init_check"
            /\ UNCHANGED <<phase, exc, ret, result>>
       ELSE /\ Raise(exc)
            /\ exc' = "none"
            /\ ret' = None
    /\ UNCHANGED <<adapter, op, procs, user_input, response, idx, results,
                   outstanding, turns, final_text, calls>>
    /\ UNCHANGED chat_history
    /\ UNCHANGED chat
    /\ UNCHANGED outside

\* if not gemini_tools: raise RuntimeError / if not self.tools: raise RuntimeError
\* (the helper's return value is not read after the test)
DiscoveryFailedIfNone(x) == x.isNone
DiscoveryFailed(x) == ~Truthy(x)

\* BrowserAgent.initialize after the helper returned.
AgentInitCheck ==
    /\ pc = "init_check" /\ engine = "agent"
    /\ IF DiscoveryFailed(ret)
       THEN /\ Raise("discovery")
            /\ UNCHANGED <<model, is_initialized>>
       ELSE /\ model' = Some(ret.val)
            /\ is_initialized' = TRUE
            /\ Return("None")
    /\ ret' = None
    /\ UNCHANGED <<engine, tools, mcp_command, mcp_url, op, frame, procs,
                   user_input, calls>>
    /\ UNCHANGED chat_history
    /\ UNCHANGED outside

\* GeminiHandler.get_response after the helper returned.
GeminiInitCheck ==
    /\ pc = "init_check" /\ engine = "gemini"
    /\ IF DiscoveryFailed(ret)
       THEN /\ Raise("discovery")
            /\ UNCHANGED <<model, frame>>
       ELSE /\ model' = Some(ret.val)
            /\ phase' = "task"
            /\ pc' = "spawn"
            /\ FreshFrame
            /\ UNCHANGED result
    /\ ret' = None
    /\ UNCHANGED <<engine, tools, is_initialized, mcp_command, mcp_url, op,
                   procs, user_input, calls>>
    /\ UNCHANGED chat_history
    /\ UNCHANGED outside

\* OpenAIHandler.get_response after the helper returned: self.tools is
\* assigned before it is tested.
OpenAIInitCheck ==
    /\ pc = "init_check" /\ engine = "openai"
    /\ tools' = ret
    /\ IF DiscoveryFailed(ret)
       THEN /\ Raise("discovery")
            /\ UNCHANGED frame
       ELSE /\ phase' = "task"
            /\ pc' = "spawn"
            /\ FreshFrame
            /\ UNCHANGED result
    /\ ret' = None
    /\ UNCHANGED <<engine, model, is_initialized, mcp_command, mcp_url, op,
                   procs, user_input, calls>>
    /\ UNCHANGED chat_history
    /\ UNCHANGED outside

\* ------------------------------------------------------ the task session
\* The coroutine is suspended at an await until the awaited call replies.
NotAwaited == TRUE
Awaited == outstanding = {}

\* response = await chat.send_message_async(user_prompt) /
\* the first client.chat.completions.create(messages=...): the call is made.
SendUser ==
    /\ pc = "send"
    /\ Awaited
    /\ chat' = StartChat(engine, chat_history)
    /\ outstanding' = outstanding \cup {LlmCall(<<UserPart(user_input)>>)}
    /\ pc' = "recv"
    /\ UNCHANGED <<adapter, op, phase, procs, process, conn, exc, ret,
                   user_input, response, idx, results, turns, final_text,
                   result, calls>>
    /\ UNCHANGED chat_history
    /\ UNCHANGED outside

\* The reasoning service replies with a response, or the call raises; it
\* has no response for a caller without an API key.
\* After MaxTurns responses the service stops requesting tools.  The results
\* just submitted are not read again (the loop body starts from an empty
\* list), so they are dropped with the reply.
Recv ==
    /\ pc = "recv"
    /\ \E c \in outstanding :
        /\ c.kind = "llm"
        /\ outstanding' = outstanding \ {c}
        /\ \/ /\ env.key
              /\ \E r \in (IF turns < MaxTurns THEN Responses ELSE FinalResponses) :
                    response' = r
              /\ turns' = turns + 1
              /\ chat' = IF engine = "openai" THEN chat ELSE Exchanged(chat, calls, turns)
              /\ pc' = "check"
              /\ idx' = 1
              /\ results' = <<>>
              /\ UNCHANGED exc
           \/ /\ Throw("reasoning")
              /\ UNCHANGED <<response, turns, idx, results, chat>>
    /\ UNCHANGED <<adapter, op, phase, procs, process, conn, ret, user_input,
                   final_text, result, calls>>
    /\ UNCHANGED chat_history
    /\ UNCHANGED outside

\* The loop condition and, when it holds, the start of the loop body:
\* tool_calls is collected and tool_response_parts = [].
Check ==
    /\ pc = "check"
    /\ IF LoopGuard(engine, response)
       THEN /\ pc' = "dispatch"
            /\ idx' = 1
            /\ results' = <<>>
       ELSE /\ pc' = "final"
            /\ UNCHANGED <<idx, results>>
    /\ UNCHANGED <<adapter, op, phase, procs, process, conn, exc, ret,
                   user_input, response, outstanding, turns, final_text,
                   result, calls>>
    /\ UNCHANGED chat_history
    /\ UNCHANGED chat
    /\ UNCHANGED outside

\* for fc in tool_calls: tool_result = await mcp_client.call_tool(name, args):
\* the next invocation is started.
InvokeStart ==
    /\ pc = "dispatch"
    /\ Awaited
    /\ idx <= Len(ToolCalls(engine, response))
    /\ outstanding' = outstanding \cup {ToolCall(ToolCalls(engine, response)[idx], idx)}
    /\ idx' = idx + 1
    /\ UNCHANGED <<adapter, op, phase, pc, procs, process, conn, exc, ret,
                   user_input, response, results, turns, final_text, result,
                   calls>>
    /\ UNCHANGED chat_history
    /\ UNCHANGED chat
    /\ UNCHANGED outside

\* The invocation replies: its result is appended, or call_tool raises and
\* the exception leaves the loop; a process that has exited serves nothing.
InvokeReturn ==
    /\ pc = "dispatch"
    /\ \E c \in outstanding :
        /\ c.kind = "tool"
        /\ outstanding' = outstanding \ {c}
        /\ \/ /\ procs[process].state = "Ready"
              /\ results' = Append(results, ResultPart(c.name, c.seq))
              /\ UNCHANGED <<pc, exc>>
           \/ /\ Throw("tool")
              /\ UNCHANGED results
    /\ UNCHANGED <<adapter, op, phase, procs, process, conn, ret, user_input,
                   response, idx, turns, final_text, result, calls>>
    /\ UNCHANGED chat_history
    /\ UNCHANGED chat
    /\ UNCHANGED outside

\* response = await chat.send_message_async(tool_response_parts) /
\* the next client.chat.completions.create(messages=...): the results of the
\* batch are submitted.
SubmitResults ==
    /\ pc = "dispatch"
    /\ Awaited
    /\ idx > Len(ToolCalls(engine, response))
    /\ outstanding' = outstanding \cup {LlmCall(results)}
    /\ pc' = "recv"
    /\ UNCHANGED <<adapter, op, phase, procs, process, conn, exc, ret,
                   user_input, response, idx, results, turns, final_text,
                   result, calls>>
    /\ UNCHANGED chat_history
    /\ UNCHANGED chat
    /\ UNCHANGED outside

\* final_text = response.text / print(response.text) /
\* final_text = response_message.content, and then the turns of the request
\* go into the caller's chat_history.  The text accessor of a Gemini
\* response that holds a function call part either gives the text parts or
\* raises ValueError, depending on the library version.
TextOf(r) == r.text

FinalThreadedFirst ==
    /\ pc = "final"
    /\ chat_history' = Threaded(engine, chat_history, chat, calls)
    /\ \/ /\ final_text' = TextOf(response)
          /\ pc' = "aexit"
          /\ UNCHANGED exc
       \/ /\ engine \in {"agent", "gemini"}
          /\ HasToolCall(response)
          /\ Throw("text")
          /\ UNCHANGED final_text
    /\ UNCHANGED <<adapter, op, phase, procs, process, conn, ret, user_input,
                   response, idx, results, outstanding, turns, result, calls>>
    /\ UNCHANGED chat
    /\ UNCHANGED outside
Final ==
    /\ pc = "final"
    /\ \/ /\ final_text' = TextOf(response)
          /\ chat_history' = Threaded(engine, chat_history, chat, calls)
          /\ pc' = "aexit"
          /\ UNCHANGED exc
       \/ /\ engine \in {"agent", "gemini"}
          /\ HasToolCall(response)
          /\ Throw("text")
          /\ UNCHANGED <<final_text, chat_history>>
    /\ UNCHANGED <<adapter, op, phase, procs, process, conn, ret, user_input,
                   response, idx, results, outstanding, turns, result, calls>>
    /\ UNCHANGED chat
    /\ UNCHANGED outside

\* `return final_text` in run_task; get_response has no return statement.
ReturnNothing == "None"
ReturnValue == IF engine = "agent" THEN final_text ELSE "None"

\* The session's frame is left: run_task returns final_text, get_response
\* returns None, or the exception in flight reaches the caller.
TaskExit ==
    /\ pc = "exit" /\ phase = "task"
    /\ IF exc /= "none"
       THEN Raise(exc)
       ELSE Return(ReturnValue)
    /\ FreshFrame
    /\ UNCHANGED <<adapter, op, procs, ret, user_input, calls>>
    /\ UNCHANGED chat_history
    /\ UNCHANGED outside

\* ----------------------------------------------------------------- faults
\* The awaits a session can be suspended at: asyncio.sleep, the entry and
\* the exit of `async with`, list_tools, send_message_async, call_tool.
\* (client.chat.completions.create of OpenAIHandler is a blocking call.)
Suspended ==
    \/ pc \in {"sleep", "connect", "list", "aexit"}
    \/ pc = "recv" /\ engine /= "openai"
    \/ pc = "dispatch" /\ outstanding /= {}

\* The task that runs the session is cancelled: CancelledError is raised at
\* the await, the pending call is abandoned.  Raised inside the exit of the
\* context manager, it leaves the connection closed or not.
Cancel ==
    /\ Suspended
    /\ exc' = "cancelled"
    /\ IF pc = "aexit"
       THEN /\ pc' = AfterClose("cancelled", phase)
            /\ conn' \in {"open", "closed"}
            /\ DropLoop
       ELSE /\ pc' = Handler(conn, phase)
            /\ outstanding' = {}
            /\ UNCHANGED <<conn, response, idx, results, turns, chat>>
    /\ UNCHANGED <<adapter, op, phase, procs, process, ret, user_input,
                   final_text, result, calls>>
    /\ UNCHANGED chat_history
    /\ UNCHANGED outside

\* The tool-host process exits on its own (it crashes) before the session
\* stops it.
ProcExit ==
    /\ process /= 0
    /\ procs[process].state \in {"Starting", "Ready"}
    /\ procs' = [procs EXCEPT ![process].state = "Exited"]
    /\ UNCHANGED <<adapter, op, phase, pc, frame, ret, user_input, result,
                   calls>>
    /\ UNCHANGED chat_history
    /\ UNCHANGED outside

\* ------------------------------------------- interleaved run_task calls
\* Two run_task calls on one initialized agent, started as two asyncio tasks:
\* each has its own frame (its local `process`, its connection, the
\* exception in flight), both use self.mcp_command and self.mcp_url.
Sessions == {"s1", "s2"}

\* The frame of a run_task call that has not begun.  `server` is the process
\* at the other end of the connection, `served` the processes that have
\* served a tool invocation of this session.
NewSession == [pc |-> "idle", process |-> 0, server |-> 0, exc |-> "none", served |-> {}]

\* The process that holds the port of mcp_url: one that was started and has
\* not exited.  There is one url, so at most one process holds it.
Holder(ps) ==
    IF \E i \in DOMAIN ps : ps[i].state \in {"Starting", "Ready", "Signalled"}
    THEN CHOOSE i \in DOMAIN ps : ps[i].state \in {"Starting", "Ready", "Signalled"}
    ELSE 0

\* What the interleaved calls leave alone: the agent's fields and the frame
\* of the calls made one at a time.
single == <<adapter, op, phase, pc, frame, ret, user_input, result, calls,
            env, shell, schema, chat_history>>

\* if not self.is_initialized: raise ...; process = None; try:
ParStart(s) ==
    /\ sessions[s].pc = "idle"
    /\ is_initialized
    /\ sessions' = [sessions EXCEPT ![s].pc = "spawn"]
    /\ UNCHANGED procs
    /\ UNCHANGED single

\* process = subprocess.Popen(self.mcp_command): a process started while
\* another one holds the port cannot bind it and exits.
ParSpawn(s) ==
    /\ sessions[s].pc = "spawn"
    /\ procs' = Append(procs, [owner |-> s,
                               state |-> IF Holder(procs) /= 0 THEN "Exited" ELSE "Starting",
                               stops |-> 0])
    /\ sessions' = [sessions EXCEPT ![s].pc = "sleep", ![s].process = Len(procs) + 1]
    /\ UNCHANGED single

\* await asyncio.sleep(8)
ParSleep(s) ==
    /\ sessions[s].pc = "sleep"
    /\ procs' = [procs EXCEPT ![sessions[s].process].state =
                                    IF @ = "Starting" THEN "Ready" ELSE @]
    /\ sessions' = [sessions EXCEPT ![s].pc = "connect"]
    /\ UNCHANGED single

\* async with MCPClient(self.mcp_url): the connection is to the url, and is
\* answered by the process that holds its port, if that one is ready.
ParConnect(s) ==
    /\ sessions[s].pc = "connect"
    /\ LET h == Holder(procs)
       IN  IF h /= 0 /\ procs[h].state = "Ready"
           THEN sessions' = [sessions EXCEPT ![s].pc = "chat", ![s].server = h]
           ELSE sessions' = [sessions EXCEPT ![s].pc = "finally", ![s].exc = "connect"]
    /\ UNCHANGED procs
    /\ UNCHANGED single

\* tool_result = await mcp_client.call_tool(...): served by the process at
\* the other end of the connection, or raising when that one is gone.
ParInvoke(s) ==
    /\ sessions[s].pc = "chat"
    /\ IF procs[sessions[s].server].state = "Ready"
       THEN sessions' = [sessions EXCEPT ![s].served = @ \cup {sessions[s].server}]
       ELSE sessions' = [sessions EXCEPT ![s].pc = "aexit", ![s].exc = "tool"]
    /\ UNCHANGED procs
    /\ UNCHANGED single

\* final_text = response.text; return final_text
ParFinal(s) ==
    /\ sessions[s].pc = "chat"
    /\ sessions' = [sessions EXCEPT ![s].pc = "aexit"]
    /\ UNCHANGED procs
    /\ UNCHANGED single

\* the exit of the async with block
ParAExit(s) ==
    /\ sessions[s].pc = "aexit"
    /\ sessions' = [sessions EXCEPT ![s].pc = "finally"]
    /\ UNCHANGED procs
    /\ UNCHANGED single

\* finally: if process: process.terminate()
ParFinally(s) ==
    /\ sessions[s].pc = "finally"
    /\ procs' = [procs EXCEPT
                    ![sessions[s].process].stops = @ + 1,
                    ![sessions[s].process].state = IF @ = "Exited" THEN @ ELSE "Signalled"]
    /\ sessions' = [sessions EXCEPT ![s].pc = "wait"]
    /\ UNCHANGED single

\* process.wait(); the call returns or raises
ParWait(s) ==
    /\ sessions[s].pc = "wait"
    /\ procs' = [procs EXCEPT ![sessions[s].process].state = "Terminated"]
    /\ sessions' = [sessions EXCEPT ![s].pc = "done"]
    /\ UNCHANGED single

\* The agent after its initialize() has returned: the catalog is built, the
\* discovery process is gone.
InitializedAgent ==
    /\ engine = "agent"
    /\ env = [key |-> TRUE, config |-> "ok"]
    /\ model = Some(GeminiConvert(Summaries(1)))
    /\ tools = None
    /\ is_initialized = TRUE
    /\ mcp_command = "cmd"
    /\ mcp_url = "url"
    /\ op = "initialize"
    /\ phase = "none"
    /\ pc = "idle"
    /\ procs = <<[owner |-> "disc", state |-> "Terminated", stops |-> 1]>>
    /\ process = 0
    /\ conn = "none"
    /\ exc = "none"
    /\ ret = None
    /\ user_input = "none"
    /\ response = NoResponse
    /\ idx = 1
    /\ results = <<>>
    /\ outstanding = {}
    /\ turns = 0
    /\ final_text = "none"
    /\ outcome = "returned"
    /\ returned = "None"
    /\ error = "none"
    /\ calls = 1
    /\ chat_history = <<>>
    /\ chat = <<>>

InitPar ==
    /\ InitializedAgent
    /\ NoMain
    /\ sessions = [s \in Sessions |-> NewSession]
    /\ NoTranslation

NextPar ==
    \/ \E s \in Sessions : ParStart(s)
    \/ \E s \in Sessions : ParSpawn(s)
    \/ \E s \in Sessions : ParSleep(s)
    \/ \E s \in Sessions : ParConnect(s)
    \/ \E s \in Sessions : ParInvoke(s)
    \/ \E s \in Sessions : ParFinal(s)
    \/ \E s \in Sessions : ParAExit(s)
    \/ \E s \in Sessions : ParFinally(s)
    \/ \E s \in Sessions : ParWait(s)

SpecPar == InitPar /\ [][NextPar]_vars

\* -------------------------------------------------- the schema translator
\* converter(tool_summaries): the adapter's translator is called on the
\* list; it returns the declarations and has assigned the defaulted types
\* into the summaries.
Translate ==
    /\ translations < MaxTranslations
    /\ previous' = declarations
    /\ declarations' = Some(Convert(engine, tool_summaries))
    /\ tool_summaries' = TranslatedInPlace(tool_summaries)
    /\ translations' = translations + 1
    /\ UNCHANGED <<adapter, op, phase, pc, procs, frame, ret, user_input,
                   result, calls, env, shell, sessions, original, chat_history>>

\* A list of tool summaries, as list_tools() returned it, and one of the
\* three translators.
InitSchema ==
    /\ engine \in Engines
    /\ env = [key |-> TRUE, config |-> "ok"]
    /\ Constructed
    /\ NoMain
    /\ NoSessions
    /\ tool_summaries \in DescriptorLists(MaxDescs)
    /\ original = tool_summaries
    /\ declarations = None
    /\ previous = None
    /\ translations = 0

NextSchema ==
    \/ Translate

SpecSchema == InitSchema /\ [][NextSchema]_vars

\* ------------------------------------------------------------------ spec
Next ==
    \/ InitializeSkip
    \/ InitializeConfigError
    \/ InitializeStart
    \/ RunTaskNotInitialized
    \/ RunTaskStart
    \/ GetResponseStart
    \/ Spawn
    \/ Sleep
    \/ Connect
    \/ AExit
    \/ Finally
    \/ Wait
    \/ ListTools
    \/ Except
    \/ DiscoveryExit
    \/ AgentInitCheck
    \/ GeminiInitCheck
    \/ OpenAIInitCheck
    \/ SendUser
    \/ Recv
    \/ Check
    \/ InvokeStart
    \/ InvokeReturn
    \/ SubmitResults
    \/ Final
    \/ TaskExit

Spec == Init /\ [][Next]_vars

\* The steps of a call under way.  The event loop runs a coroutine that can
\* run, and every call it awaits replies (with a value or an exception), so
\* a call under way is not left for ever at a step it can take; the caller
\* is free never to call again.
SessionStep ==
    \/ Spawn \/ Sleep \/ Connect \/ AExit \/ Finally \/ Wait
    \/ ListTools \/ Except \/ DiscoveryExit
    \/ AgentInitCheck \/ GeminiInitCheck \/ OpenAIInitCheck
    \/ SendUser \/ Recv \/ Check \/ InvokeStart \/ InvokeReturn
    \/ SubmitResults \/ Final \/ TaskExit

SpecLive == Init /\ [][Next]_vars /\ WF_vars(SessionStep)

\* The same adapter with a caller that may cancel the session and a tool
\* host that may crash.
NextFaults ==
    \/ Next
    \/ Cancel
    \/ ProcExit

SpecFaults == Init /\ [][NextFaults]_vars

\* ------------------------------------------------------- main() of chat.py
\* load_dotenv(); mcp_command, mcp_url = load_mcp_config();
\* if not mcp_command or not mcp_url: return
MainConfigMissing ==
    /\ main_pc = "start"
    /\ LET c == LoadMcpConfig(env)
       IN  /\ Falsy(c[1]) \/ Falsy(c[2])
           /\ mcp_command' = c[1]
           /\ mcp_url' = c[2]
    /\ main_pc' = "ended"
    /\ UNCHANGED <<engine, model, tools, is_initialized, op, phase, pc, procs,
                   frame, ret, user_input, result, calls, env, line, sessions,
                   schema, chat_history>>

\* handler = OpenAIHandler(config): OpenAI(api_key=os.getenv(...)) raises
\* when there is no key, and the exception leaves main().
MainHandlerError ==
    /\ main_pc = "start"
    /\ LET c == LoadMcpConfig(env)
       IN  /\ ~(Falsy(c[1]) \/ Falsy(c[2]))
           /\ mcp_command' = c[1]
           /\ mcp_url' = c[2]
    /\ engine = "openai" /\ ~env.key
    /\ main_pc' = "ended"
    /\ outcome' = "raised"
    /\ error' = "credential"
    /\ UNCHANGED <<engine, model, tools, is_initialized, op, phase, pc, procs,
                   frame, ret, user_input, returned, calls, env, line,
                   sessions, schema, chat_history>>

\* genai.configure(api_key=os.getenv("GOOGLE_API_KEY")); handler =
\* GeminiHandler(config) / handler = OpenAIHandler(config); chat_history = []:
\* configure() takes the missing key without a complaint.
MainReady ==
    /\ main_pc = "start"
    /\ LET c == LoadMcpConfig(env)
       IN  /\ ~(Falsy(c[1]) \/ Falsy(c[2]))
           /\ mcp_command' = c[1]
           /\ mcp_url' = c[2]
    /\ engine = "gemini" \/ env.key
    /\ main_pc' = "loop"
    /\ UNCHANGED <<engine, model, tools, is_initialized, op, phase, pc, procs,
                   frame, ret, user_input, result, calls, env, line, sessions,
                   schema, chat_history>>

\* user_input = input().strip(); if not user_input: print(...); continue
MainEmptyLine ==
    /\ main_pc = "loop" /\ pc = "idle"
    /\ \E raw \in Lines :
        /\ line' = Strip(raw)
        /\ IsEmptyString(line')
    /\ UNCHANGED <<adapter, op, phase, pc, procs, frame, ret, user_input,
                   result, calls, env, main_pc, sessions, schema, chat_history>>

\* if user_input.lower() in ['exit', 'quit']: break
MainExitLine ==
    /\ main_pc = "loop" /\ pc = "idle"
    /\ \E raw \in Lines :
        /\ line' = Strip(raw)
        /\ ~IsEmptyString(line')
        /\ InExitList(Lower(line'))
    /\ main_pc' = "ended"
    /\ UNCHANGED <<adapter, op, phase, pc, procs, frame, ret, user_input,
                   result, calls, env, sessions, schema, chat_history>>

\* await handler.get_response(user_input, mcp_command, mcp_url, chat_history):
\* the one list made before the loop is handed to every call.
MainGetResponse ==
    /\ main_pc = "loop" /\ pc = "idle" /\ calls < MaxCalls
    /\ Len(chat_history) <= MaxHistory
    /\ \E raw \in Lines :
        /\ line' = Strip(raw)
        /\ ~IsEmptyString(line')
        /\ ~InExitList(Lower(line'))
        /\ GetResponseBegin(line'.word)
    /\ main_pc' = "call"
    /\ UNCHANGED <<mcp_command, mcp_url, env, sessions, schema, chat_history>>

\* except Exception as e: log, print the apology; then `while True` again.
\* An exception that is no Exception (a cancellation) leaves main().
MainAfterCall ==
    /\ main_pc = "call" /\ pc = "idle"
    /\ main_pc' = IF outcome = "raised" /\ ~Caught(error) THEN "ended" ELSE "loop"
    /\ UNCHANGED <<adapter, op, phase, pc, procs, frame, ret, user_input,
                   result, calls, env, line, sessions, schema, chat_history>>

\* The interactive program: main() with the handler it built.
InitMain ==
    /\ engine \in {"gemini", "openai"}
    /\ env \in Envs
    /\ Constructed
    /\ main_pc = "start" /\ line = NoLine
    /\ NoSessions
    /\ NoTranslation

NextMain ==
    \/ MainConfigMissing
    \/ MainHandlerError
    \/ MainReady
    \/ MainEmptyLine
    \/ MainExitLine
    \/ MainGetResponse
    \/ MainAfterCall
    \/ Spawn
    \/ Sleep
    \/ Connect
    \/ AExit
    \/ Finally
    \/ Wait
    \/ ListTools
    \/ Except
    \/ DiscoveryExit
    \/ GeminiInitCheck
    \/ OpenAIInitCheck
    \/ SendUser
    \/ Recv
    \/ Check
    \/ InvokeStart
    \/ InvokeReturn
    \/ SubmitResults
    \/ Final
    \/ TaskExit

SpecMain == InitMain /\ [][NextMain]_vars

\* ================================================================ claims
\* Positions inside a session frame (the try block and its handlers).
InFrame == pc \in {"spawn", "sleep", "connect", "list", "send", "recv", "check",
                   "dispatch", "final", "aexit", "except", "finally", "wait", "exit"}
\* The session that spawned process i is still running.
Running(i) == i = process /\ InFrame
\* The positions after the conversation loop of a task session.
AfterLoop == {"final", "aexit", "finally", "wait", "exit"}

\* C1: every process a session spawned gets exactly one terminate: never
\* more than one at any time, and exactly one once its session has ended
\* (by return, by a tool invocation raising, by a reasoning call raising).
C1_ExactlyOneStop ==
    \A i \in DOMAIN procs :
        /\ procs[i].stops <= 1
        /\ ~Running(i) => procs[i].stops = 1

\* C1 witness: a task session that ended by a tool invocation raising, its
\* process stopped once.
C1_Witness ==
    /\ pc = "idle" /\ outcome = "raised" /\ error = "tool"
    /\ \E i \in DOMAIN procs : procs[i].owner = "task" /\ procs[i].stops = 1

\* C2: a process is alive (not Terminated) only while the session that
\* spawned it is running; once control is back with the caller of run_task,
\* get_response or the discovery helper, the process is Terminated.
C2_NeverOutlives ==
    \A i \in DOMAIN procs : procs[i].state /= "Terminated" => Running(i)

\* C2 witness: the discovery helper has returned to its caller and its
\* temporary process is Terminated.
C2_Witness ==
    /\ pc = "init_check"
    /\ \E i \in DOMAIN procs : procs[i].owner = "disc" /\ procs[i].state = "Terminated"

\* C3 (as claimed): in a batch of three requests [A, B, C] the reply of the
\* second invocation, failed or not, puts the result of B at position 2 and
\* the dispatch goes on to C, so that [resultA, resultB, resultC] is what is
\* submitted.
C3_Original ==
    [][\A c \in outstanding :
          (/\ pc = "dispatch" /\ Len(ToolCalls(engine, response)) = 3
           /\ c.kind = "tool" /\ c.seq = 2 /\ c \notin outstanding')
              => /\ pc' = "dispatch"
                 /\ Len(results') = 2
                 /\ results'[2] = ResultPart(ToolCalls(engine, response)[2], 2)]_vars

\* C4 (as claimed): a failing tool invocation never reaches the caller of
\* the engine as an exception.
C4_Original == ~(outcome = "raised" /\ error = "tool")

\* C5 (as claimed): the engine leaves the loop for the final answer only on
\* a response that carries no tool-call request, whatever the position of
\* the request among the parts.
C5_Original == (phase = "task" /\ pc = "final") => ~HasToolCall(response)

\* C6: a response with no tool-call request takes the engine out of the
\* loop on its next step; the answer is that response's text; nothing is
\* invoked or submitted after the loop; the text is kept through teardown
\* and run_task returns it.
C6_Termination ==
    [][/\ (phase = "task" /\ pc = "check" /\ ~HasToolCall(response))
            => (pc' = "final" /\ outstanding' = {} /\ response' = response)
       /\ (phase = "task" /\ pc = "final" /\ ~HasToolCall(response))
            => (final_text' = response.text /\ exc' = "none" /\ pc' = "aexit")
       /\ (phase = "task" /\ pc \in AfterLoop)
            => (outstanding' = {} /\ pc' \in AfterLoop \cup {"idle"})
       /\ (phase = "task" /\ pc \in AfterLoop \ {"final", "exit"})
            => final_text' = final_text
       /\ (phase = "task" /\ pc = "exit" /\ exc = "none")
            => /\ outcome' = "returned"
               /\ engine = "agent" => returned' = final_text]_vars

\* C6 witness: run_task has returned the text "t2" of a final response.
C6_Witness ==
    /\ pc = "idle" /\ engine = "agent" /\ op = "run_task"
    /\ outcome = "returned" /\ returned = "t2"

\* C7 (as claimed): when the results of a batch are submitted, there is one
\* result for every tool-call request of the response.
C7_Original ==
    \A c \in outstanding :
        (pc = "recv" /\ c.kind = "llm" /\ response /= NoResponse)
            => Len(c.input) = Len(CallsOf(response))

\* C8: at most one call is outstanding; the invocations of a batch are
\* started in request order, each after the previous one has replied.
C8_Sequential ==
    /\ Cardinality(outstanding) <= 1
    /\ pc = "dispatch" =>
        /\ \A k \in DOMAIN results :
              results[k] = ResultPart(ToolCalls(engine, response)[k], k)
        /\ \A c \in outstanding :
              c.kind = "tool" /\ c.seq = idx - 1 /\ Len(results) = idx - 2
        /\ outstanding = {} => Len(results) = idx - 1

\* C8 witness: the second invocation of a batch is outstanding, the first
\* has replied.
C8_Witness ==
    /\ pc = "dispatch" /\ idx = 3 /\ Len(results) = 1
    /\ \E c \in outstanding : c.kind = "tool" /\ c.seq = 2

\* The adapter holds a catalog: the agent is initialized, the Gemini handler
\* has a model, the OpenAI handler a non-empty tool list.
CatalogBuilt ==
    CASE engine = "agent" -> is_initialized /\ ~model.isNone
      [] engine = "gemini" -> ~model.isNone
      [] OTHER -> ~tools.isNone /\ tools.val /= <<>>
NoCatalog(x) == x.isNone \/ x.val = <<>>

\* C9: every failure of the discovery helper (launch, connect, list_tools)
\* makes it return no catalog, and when it returns no catalog (None or zero
\* tools) initialize / get_response raises at once: nothing is installed, no
\* process is spawned and no reasoning call is made.
C9_EmptyCatalogRejected ==
    [][/\ (phase = "disc" /\ exc /= "none") => pc \in {"aexit", "except"}
       /\ (phase = "disc" /\ pc = "except") => ret' = None
       /\ (pc = "init_check" /\ NoCatalog(ret))
            => /\ pc' = "idle" /\ outcome' = "raised" /\ error' = "discovery"
               /\ ~CatalogBuilt'
               /\ model' = model /\ is_initialized' = is_initialized
               /\ procs' = procs /\ outstanding' = {}]_vars

\* C9 witness: the host listed zero tools and get_response raised.
C9_Witness ==
    /\ pc = "idle" /\ engine = "openai"
    /\ outcome = "raised" /\ error = "discovery" /\ tools = Some(<<>>)

\* C10: once the catalog is built, no later step enters the discovery
\* helper or changes the catalog, the model or is_initialized.
C10_CatalogBuiltOnce ==
    [][CatalogBuilt => /\ phase' /= "disc"
                       /\ model' = model
                       /\ tools' = tools
                       /\ is_initialized' = is_initialized]_vars

\* C10 witness: a later call on an adapter whose catalog is built has
\* returned.
C10_Witness ==
    /\ CatalogBuilt /\ calls >= 2 /\ pc = "idle" /\ outcome = "returned"

\* The configuration is in error: no API key, or no usable launch
\* specification in config.json.
ConfigError == ~env.key \/ env.config /= "ok"

\* C11 (as claimed): when the configuration is in error, no tool-host
\* process, discovery or task, is ever spawned.
C11_Original == ConfigError => procs = <<>>

\* The way out of a session: the close of the connection, the except and
\* finally clauses, the wait, the return to the caller.
Teardown == {"aexit", "except", "finally", "wait", "exit"}

\* C12: a cancellation raised at any await of a session sends the session
\* down its way out, and when it leaves the frame and when it has reached
\* the caller the process the session spawned has been told to stop once
\* and is Terminated.
C12_CancelTearsDown ==
    /\ exc = "cancelled" => pc \in Teardown
    /\ (exc = "cancelled" /\ pc = "exit" /\ process /= 0)
          => procs[process].state = "Terminated" /\ procs[process].stops = 1
    /\ (pc = "idle" /\ outcome = "raised" /\ error = "cancelled")
          => \A i \in DOMAIN procs :
                procs[i].state = "Terminated" /\ procs[i].stops = 1

\* C12 witness: run_task was cancelled, the cancellation has reached its
\* caller and the task's process is Terminated.
C12_Witness ==
    /\ pc = "idle" /\ op = "run_task" /\ outcome = "raised" /\ error = "cancelled"
    /\ procs /= <<>>
    /\ procs[Len(procs)].owner = "task" /\ procs[Len(procs)].state = "Terminated"

\* C15: a reasoning call that does not reply with a response raises; from
\* then on no call is started and no answer is taken, the exception stays
\* in flight through teardown, and it reaches the caller of run_task /
\* get_response as that call's outcome, with no value returned and every
\* process Terminated.
C15_ReasoningFailureFatal ==
    [][/\ (phase = "task" /\ pc = "recv" /\ pc' \notin {"recv", "check"})
            => (exc' = "reasoning" /\ pc' = "aexit")
       /\ (phase = "task" /\ exc = "reasoning")
            => /\ outstanding' = {}
               /\ final_text' = "none"
               /\ pc' \in Teardown \cup {"idle"}
               /\ pc' /= "idle" => exc' = "reasoning"
               /\ pc' = "idle" =>
                    /\ outcome' = "raised" /\ error' = "reasoning"
                    /\ returned' = "None"
                    /\ \A i \in DOMAIN procs' : procs'[i].state = "Terminated"]_vars

\* C15 witness: a reasoning call of a task failed and the caller of the
\* engine has the exception, the task's process Terminated.
C15_Witness ==
    /\ pc = "idle" /\ outcome = "raised" /\ error = "reasoning"
    /\ \E i \in DOMAIN procs : procs[i].owner = "task" /\ procs[i].state = "Terminated"

\* C16: on a process that has exited on its own, the finally clause goes
\* on to the wait without raising, the wait leaves the process Terminated,
\* neither touches the exception in flight or the answer, and the session
\* ends as it would have: with that exception, or returning its answer.
C16_StopSafeAfterExit ==
    [][/\ (pc = "finally" /\ process /= 0 /\ procs[process].state = "Exited")
            => /\ pc' = "wait"
               /\ procs'[process].state = "Exited"
               /\ exc' = exc /\ final_text' = final_text
       /\ (pc = "wait" /\ procs[process].state = "Exited")
            => /\ pc' = "exit"
               /\ procs'[process].state = "Terminated"
               /\ exc' = exc /\ final_text' = final_text
       /\ (pc = "exit" /\ phase = "task")
            => /\ process /= 0 => procs[process].state = "Terminated"
               /\ exc /= "none" => (outcome' = "raised" /\ error' = exc)
               /\ exc = "none" =>
                    /\ outcome' = "returned"
                    /\ engine = "agent" => returned' = final_text]_vars

\* C16 witness: the process crashed while a tool invocation was pending,
\* terminate() has been called on it and the session is at the wait with
\* the tool's exception still in flight.
C16_Witness ==
    /\ pc = "wait" /\ phase = "task" /\ exc = "tool"
    /\ procs[process].state = "Exited" /\ procs[process].stops = 1

\* C13 (as claimed): a task that has sent the request ends with its answer
\* (Done), unless a reasoning call or a tool invocation did not return.
C13_Original ==
    (phase = "task" /\ pc = "send")
        ~> (pc = "idle" /\ (outcome = "returned" \/ error \in {"reasoning", "tool"}))

\* C14 (as claimed): with two run_task calls interleaved, the process at
\* the other end of a session's connection, and every process that served
\* one of its tool invocations, was spawned by that session.
C14_Original ==
    \A s \in DOMAIN sessions :
        /\ sessions[s].server /= 0 => procs[sessions[s].server].owner = s
        /\ \A i \in sessions[s].served : procs[i].owner = s

\* C17: when get_response has ended, with a value or with any exception,
\* main() is back at its prompt; main() leaves the loop only on a read of
\* exit / quit, which in any letter case does end it; and the read of an
\* empty line or of exit / quit makes no call and spawns no process.
C17_LoopSurvives ==
    [][/\ (main_pc = "call" /\ pc = "idle") => main_pc' = "loop"
       /\ (main_pc = "loop" /\ main_pc' /= "loop" /\ main_pc' /= "call")
            => (main_pc' = "ended" /\ line'.word \in ExitWords)
       /\ (main_pc = "loop" /\ line'.word \in ExitWords) => main_pc' = "ended"
       /\ (main_pc = "loop" /\ line'.word \in ExitWords \cup {""})
            => (calls' = calls /\ procs' = procs /\ pc' = "idle")
       /\ calls' /= calls => line'.word \notin ExitWords \cup {""}]_vars

\* C17 witness: a call failed with a tool error, main() went on reading,
\* and the loop has ended on the line QUIT.
C17_Witness ==
    /\ main_pc = "ended" /\ line.word = "quit" /\ line.upper
    /\ calls >= 1 /\ outcome = "raised" /\ error = "tool"

\* The declarations in what the translator returned: the list itself
\* (OpenAI), the declarations of the one GeminiTool, none for [].
DeclarationsOf(out) ==
    IF engine = "openai" \/ out = <<>> THEN out ELSE out[1].decls
\* The parameters a tool summary declared when list_tools() returned it.
Declared(i) ==
    IF original[i].properties.isNone THEN <<>> ELSE original[i].properties.val

\* C18: in the first translation of a list, every parameter a summary
\* declares without a type has type string in the declaration, every
\* parameter declared with a type has that type, no parameter is added or
\* lost, and the required list is the summary's, or empty when it has none.
C18_SchemaDefaulting ==
    translations = 1 =>
        LET out == DeclarationsOf(declarations.val)
        IN  \A i \in DOMAIN original :
              /\ DOMAIN out[i].parameters.properties = DOMAIN Declared(i)
              /\ \A p \in DOMAIN Declared(i) :
                    out[i].parameters.properties[p] =
                        IF Declared(i)[p] = "none" THEN "string" ELSE Declared(i)[p]
              /\ out[i].parameters.required =
                    IF original[i].required.isNone THEN <<>> ELSE original[i].required.val

\* C18 witness: a summary with one parameter without a type, one of type
\* integer and no required list has been translated.
C18_Witness ==
    /\ translations = 1 /\ Len(original) >= 1
    /\ original[1].required.isNone
    /\ Declared(1) = [p \in Params |-> IF p = "p" THEN "none" ELSE "integer"]
    /\ DeclarationsOf(declarations.val)[1].parameters.properties
          = [p \in Params |-> IF p = "p" THEN "string" ELSE "integer"]

\* C19: the second translation of a list returns what the first returned;
\* a translation returns one declaration per summary, in the order of the
\* list; the empty list is translated to the empty schema.
C19_Idempotent ==
    /\ translations >= 2 => previous = declarations
    /\ translations >= 1 =>
        LET out == DeclarationsOf(declarations.val)
        IN  /\ Len(out) = Len(original)
            /\ \A i \in DOMAIN original : out[i].name = original[i].name
            /\ original = <<>> => declarations = Some(<<>>)

\* C19 witness: a list of two summaries, one with a parameter without a
\* type and a required list, has been translated twice.
C19_Witness ==
    /\ translations = 2 /\ Len(original) = 2
    /\ \E i \in DOMAIN original :
          /\ \E p \in DOMAIN Declared(i) : Declared(i)[p] = "none"
          /\ original[i].required = Some(<<"p">>)

\* C20 (as claimed): a translation leaves the tool summaries it was given
\* as they were.
C20_Original == translations >= 1 => tool_summaries = original

\* The turns of h from position k + 1 on.
From(h, k) == SubSeq(h, k + 1, Len(h))
\* No turn is in h twice.
NoRepeat(h) == \A i, j \in DOMAIN h : h[i] = h[j] => i = j

\* C21 (as claimed): whenever a request changes the history threaded
\* through the get_response calls, the new history is the old one followed
\* by turns of that request only, and no turn is in it a second time.
C21_Original ==
    [][chat_history' /= chat_history
          => /\ Len(chat_history') > Len(chat_history)
             /\ SubSeq(chat_history', 1, Len(chat_history)) = chat_history
             /\ \A i \in DOMAIN From(chat_history', Len(chat_history)) :
                    From(chat_history', Len(chat_history))[i].req = calls
             /\ NoRepeat(chat_history')]_vars

\* C22: the history changes only in the step that takes the answer, and a
\* call that took its answer does not fail afterwards: from that step to its
\* return no exception is in flight and the call ends by returning.  So a
\* get_response that ends with an exception (launch, connection, tool
\* invocation, reasoning service, the text accessor) has left chat_history
\* as it was handed over.
C22_FailureKeepsHistory ==
    [][/\ chat_history' /= chat_history
            => (phase = "task" /\ pc = "final" /\ pc' = "aexit" /\ exc' = "none")
       /\ (phase = "task" /\ pc \in {"aexit", "finally", "wait", "exit"} /\ exc = "none")
            => (exc' = "none" /\ (pc' = "idle" => outcome' = "returned"))
       /\ (phase = "task" /\ exc' /= "none") => chat_history' = chat_history
       /\ (pc' = "idle" /\ pc /= "idle" /\ outcome' = "raised")
            => (exc /= "none" \/ pc = "init_check") /\ chat_history' = chat_history]_vars

\* C22 witness: a request made with two turns of history failed on a tool
\* invocation, and main() has the two turns still.
C22_Witness ==
    /\ main_pc = "call" /\ pc = "idle" /\ outcome = "raised" /\ error = "tool"
    /\ Len(chat_history) = 2 /\ chat_history[1].req < calls

\* The states a process goes through: Ready once the readiness wait has
\* elapsed, Signalled between terminate() and the return of wait(), then
\* Terminated.
Lifecycle == {<<"Starting", "Ready">>, <<"Ready", "Signalled">>,
              <<"Starting", "Signalled">>, <<"Signalled", "Terminated">>}
\* The positions from the connection attempt to the end of the conversation.
Talking == {"connect", "list", "send", "recv", "check", "dispatch", "final"}
\* The process of the running session is up and no stop was issued to it.
Serving == process /= 0 /\ procs[process].state = "Ready" /\ procs[process].stops = 0

\* C23: a process starts as Starting and moves only along Starting ->
\* Ready -> (terminate, wait) -> Terminated, never out of Terminated; the
\* session attempts its connection, calls the reasoning service and invokes
\* tools only with its process spawned and the readiness wait elapsed, and
\* once stop was issued to the process it opens no connection and makes no
\* call.
C23_ProcessLifecycle ==
    [][/\ Len(procs') >= Len(procs)
       /\ \A i \in DOMAIN procs' :
             IF i \in DOMAIN procs
             THEN procs'[i].state = procs[i].state
                  \/ <<procs[i].state, procs'[i].state>> \in Lifecycle
             ELSE procs'[i].state = "Starting"
       /\ pc \in Talking => Serving
       /\ ((conn' = "open" /\ conn /= "open") \/ ~(outstanding' \subseteq outstanding))
             => (pc \in Talking /\ Serving)
       /\ (process /= 0 /\ procs[process].stops > 0)
             => (conn' /= "open" /\ outstanding' = {} /\ pc' \notin Talking)]_vars

\* C23 witness: a task session that connected, got its answer from the
\* reasoning service and has stopped its process, now Terminated.
C23_Witness ==
    /\ pc = "exit" /\ phase = "task" /\ final_text = "t1"
    /\ process /= 0 /\ procs[process].state = "Terminated"

\* C24: terminate() is called on the process of a session only with the
\* session's connection not open: closed when the session had opened it,
\* on the return path and on every exception path; the process stays
\* untouched while the connection is open, and the close comes first.
C24_CloseBeforeTerminate ==
    [][/\ (process /= 0 /\ procs[process].stops > 0) => conn /= "open"
       /\ (pc = "finally" /\ pc' = "wait") => conn \in {"none", "closed"}
       /\ (pc' = "finally" /\ conn = "open") => conn' = "closed"
       /\ conn = "open"
            => /\ procs' = procs
               /\ conn' \in {"open", "closed"}
               /\ pc' \notin {"finally", "wait", "exit", "idle"} \/ conn' = "closed"
       /\ conn = "closed" => conn' \in {"closed", "none"}]_vars

\* C24 witness: a tool invocation raised inside the connection; the
\* connection is closed and terminate() has just been called.
C24_Witness ==
    /\ pc = "wait" /\ phase = "task" /\ exc = "tool" /\ conn = "closed"
    /\ procs[process].state = "Signalled"

\* A call of `name` begins in this step.
Called(name) == pc = "idle" /\ calls' = calls + 1 /\ op' = name

\* C25: on an agent that is not initialized (is_initialized false, which is
\* the case exactly while no model is set) run_task raises in its first
\* step, with no process spawned, no call started and no field of the agent
\* changed; an initialize that ends by raising leaves is_initialized false
\* and model None; and initialize on such an agent is not skipped: it loads
\* the configuration again and enters the discovery helper, or raises on
\* the configuration.
C25_UninitializedRejects ==
    [][/\ engine = "agent" => (is_initialized <=> ~model.isNone)
       /\ (engine = "agent" /\ ~is_initialized /\ Called("run_task"))
            => /\ pc' = "idle" /\ outcome' = "raised" /\ error' = "notinit"
               /\ procs' = procs /\ outstanding' = {} /\ conn' = conn
               /\ model' = model /\ is_initialized' = is_initialized
               /\ mcp_command' = mcp_command /\ mcp_url' = mcp_url
       /\ (op' = "initialize" /\ pc' = "idle" /\ outcome' = "raised"
            /\ (pc /= "idle" \/ calls' > calls))
            => (~is_initialized' /\ model' = None)
       /\ (engine = "agent" /\ ~is_initialized /\ Called("initialize"))
            => \/ phase' = "disc" /\ pc' = "spawn"
               \/ pc' = "idle" /\ outcome' = "raised" /\ error' = "config"]_vars

\* C25 witness: initialize failed twice, each time after its discovery
\* helper had run, and the run_task that followed was rejected.
C25_Witness ==
    /\ engine = "agent" /\ ~is_initialized /\ pc = "idle"
    /\ op = "run_task" /\ outcome = "raised" /\ error = "notinit"
    /\ Len(procs) = 2 /\ procs[2].owner = "disc"

\* The processes that are not Terminated.
Alive == {i \in DOMAIN procs : procs[i].state /= "Terminated"}

\* C26: every run_task starts its chat with no history and submits the
\* user prompt first; the chat of a task holds turns of that task only, so
\* no turn of an earlier task is submitted; no step of a run_task call,
\* whether it returns or raises, changes model, mcp_command, mcp_url or
\* is_initialized; and with the calls made one after the other at most one
\* process of the agent is alive at any time.
C26_TaskLeavesAgentUnchanged ==
    [][engine = "agent" =>
        /\ (phase = "task" /\ pc = "send" /\ pc' /= "send")
              => /\ chat' = <<>>
                 /\ outstanding' = {LlmCall(<<UserPart(user_input)>>)}
        /\ \A i \in DOMAIN chat : chat[i].req = calls
        /\ chat_history = <<>>
        /\ op' = "run_task"
              => /\ model' = model /\ is_initialized' = is_initialized
                 /\ mcp_command' = mcp_command /\ mcp_url' = mcp_url
        /\ Cardinality(Alive) <= 1]_vars

\* C26 witness: the second task of an agent has its first response, and
\* its chat holds the two turns of that exchange.
C26_Witness ==
    /\ engine = "agent" /\ op = "run_task" /\ calls = 3 /\ Len(procs) = 3
    /\ pc = "check" /\ chat = <<Turn(3, 1, "user"), Turn(3, 2, "model")>>

====
